---------------------------- MODULE Spec2Model ----------------------------
(***************************************************************************)
(* A model of DOKVS (src/src/cfobj.ts), the strongly consistent key-value  *)
(* store kept in a Durable Object's SQLite storage.                        *)
(*                                                                         *)
(* Strings are sequences of one-character strings, binary buffers are      *)
(* sequences of bytes (0..255), the table dokvs is a set of rows, and the  *)
(* clock DOKVS.now() is the variable now (whole seconds).  An omitted      *)
(* optional argument is the empty sequence <<>>, a given one is <<x>>.     *)
(***************************************************************************)
EXTENDS Integers, Sequences, FiniteSets

VARIABLES
    table,      \* the rows of the SQLite table dokvs
    interval,   \* this.#interval
    timing,     \* this.#timing  (the next sweep time)
    now,        \* DOKVS.now(): Math.trunc(Date.now() / 1000)
    pending,    \* the deferred units handed to ctx.waitUntil, in queue order
    last,       \* what happened last in the current second: a call with what
                \* it returned, or a deferred unit that ran
    written,    \* history: for each row, the put that wrote it, as it was called
    codec,      \* the value codec exercised on its own (SpecCodec)
    init,       \* the persisted flag: ctx.storage.get("init") ?? false
    schema,     \* the objects of the SQLite schema: "dokvs", "expindex"
    boot,       \* where the instance's blockConcurrencyWhile callback stands
    created,    \* history: how often #TABLE and #INDEX were executed
    sweptAt,    \* history: the latest sweep, unless setCleanupInterval has reset
                \* the timer since: its time, the interval then in force, and
                \* whether it was run by the present instance
    adapter     \* the caller's side (src/main.ts): the getter being resolved, or
                \* the call KVRealtimeStore has made to the store

vars == <<table, interval, timing, now, pending, last, written, codec,
          init, schema, boot, created, sweptAt, adapter>>

-----------------------------------------------------------------------------
(* Bounds of the model *)

MaxNow == 3        \* the clock runs from 1 to MaxNow
MaxExp == 2        \* expirations passed to put range over -1..MaxExp
MaxInterval == 1   \* intervals passed to setCleanupInterval: -1..MaxInterval
MaxBinLen == 2     \* buffers given to the codec have at most MaxBinLen bytes
MaxCreated == 2    \* executions of #TABLE and of #INDEX are counted up to MaxCreated

(* Program constants *)

DefaultInterval == 86400   \* #interval: number = 86400
InitialTiming == 0         \* #timing: number = 0
DefaultLimit == 1000       \* options?.limit ?? 1000
MinLimit == 1              \* Math.max(..., 1)
MaxLimit == 1000           \* Math.min(..., 1000)
VTypeString == 0           \* #VTYPE.string
VTypeBuffer == 1           \* #VTYPE.buffer

-----------------------------------------------------------------------------
(* Values: KVValue = string | ArrayBuffer *)

Str(s) == [kind |-> "string", str |-> s]
Buf(b) == [kind |-> "buffer", bytes |-> b]

(* What a call returns or raises *)
Undefined == [tag |-> "undefined"]
Returned(v) == [tag |-> "value", value |-> v]
Thrown == [tag |-> "TypeError"]

-----------------------------------------------------------------------------
(* The value codec *)

HexDigits == <<"0", "1", "2", "3", "4", "5", "6", "7",
               "8", "9", "a", "b", "c", "d", "e", "f">>

\* x.toString(16)
ToString16(x) ==
    IF x < 16 THEN <<HexDigits[x + 1]>>
    ELSE <<HexDigits[(x \div 16) + 1], HexDigits[(x % 16) + 1]>>

\* s.padStart(2, "0")
PadStart2(s) == IF Len(s) < 2 THEN <<"0">> \o s ELSE s

RECURSIVE bin2str(_)
bin2str(bin) ==
    IF bin = <<>> THEN <<>>
    ELSE PadStart2(ToString16(Head(bin))) \o bin2str(Tail(bin))

toStoreValue(value) ==
    IF value.kind = "string"
    THEN [val |-> value.str, vtype |-> VTypeString]
    ELSE [val |-> bin2str(value.bytes), vtype |-> VTypeBuffer]

\* str.match(/.{2}/g): the successive two-character groups; a trailing odd
\* character matches nothing, and no match at all is null (here <<>>).
RECURSIVE Match2(_)
Match2(str) ==
    IF Len(str) < 2 THEN <<>>
    ELSE <<SubSeq(str, 1, 2)>> \o Match2(SubSeq(str, 3, Len(str)))

IsHexDigit(c) == \E i \in 1..16 : HexDigits[i] = c
HexValue(c) == (CHOOSE i \in 1..16 : HexDigits[i] = c) - 1

\* parseInt(x, 16) of a two-character group, as stored in a Uint8Array
\* (parsing stops at the first character that is no digit; NaN is stored as 0)
ParseInt16(x) ==
    IF ~IsHexDigit(x[1]) THEN 0
    ELSE IF ~IsHexDigit(x[2]) THEN HexValue(x[1])
    ELSE HexValue(x[1]) * 16 + HexValue(x[2])

\* null!.map(...) raises a TypeError
str2bin(str) ==
    LET groups == Match2(str) IN
    IF groups = <<>> THEN Thrown
    ELSE Returned(Buf([i \in 1..Len(groups) |-> ParseInt16(groups[i])]))

toUseValue(value, vtype) ==
    IF vtype = VTypeString THEN Returned(Str(value))
    ELSE IF vtype = VTypeBuffer THEN str2bin(value)
    ELSE Undefined

-----------------------------------------------------------------------------
(* SQLite: the column "key string" has NUMERIC affinity ("string" holds    *)
(* none of INT, CHAR, CLOB, TEXT, BLOB, REAL, FLOA, DOUB), the column      *)
(* "val text" has TEXT affinity; LIKE is case-insensitive on ASCII letters *)
(* and reads % and _ in the pattern as wildcards (no ESCAPE is given).     *)

Digits == {"0", "1", "2", "3", "4", "5", "6", "7", "8", "9"}

UpperLetters == <<"A", "B", "C", "D", "E", "F", "G", "H", "I", "J", "K", "L", "M",
                  "N", "O", "P", "Q", "R", "S", "T", "U", "V", "W", "X", "Y", "Z">>
LowerLetters == <<"a", "b", "c", "d", "e", "f", "g", "h", "i", "j", "k", "l", "m",
                  "n", "o", "p", "q", "r", "s", "t", "u", "v", "w", "x", "y", "z">>

Lower(c) ==
    IF \E i \in 1..26 : UpperLetters[i] = c
    THEN LowerLetters[CHOOSE i \in 1..26 : UpperLetters[i] = c]
    ELSE c

\* a well-formed integer literal (the model's keys carry no sign, fraction,
\* exponent or blanks)
IsIntegerLiteral(s) == s # <<>> /\ \A i \in 1..Len(s) : s[i] \in Digits

\* the decimal rendering of the integer a literal denotes
RECURSIVE StripZeros(_)
StripZeros(s) ==
    IF Len(s) > 1 /\ Head(s) = "0" THEN StripZeros(Tail(s)) ELSE s

\* NUMERIC affinity: a text that is a well-formed integer literal is stored
\* (and compared) as that INTEGER, any other text as TEXT
Affinity(k) ==
    IF IsIntegerLiteral(k)
    THEN [type |-> "integer", text |-> StripZeros(k)]
    ELSE [type |-> "text", text |-> k]

\* str LIKE pat
RECURSIVE Like(_, _)
Like(pat, str) ==
    IF pat = <<>> THEN str = <<>>
    ELSE IF Head(pat) = "%"
         THEN Like(Tail(pat), str) \/ (str # <<>> /\ Like(pat, Tail(str)))
         ELSE /\ str # <<>>
              /\ (Head(pat) = "_" \/ Lower(Head(pat)) = Lower(Head(str)))
              /\ Like(Tail(pat), Tail(str))

\* ttl = 0 or ttl >= ?
NotExpired(row, bound) == row.ttl = 0 \/ row.ttl >= bound

\* #UPSERT
SqlUpsert(t, key, val, ttl, vtype) ==
    {r \in t : r.key # Affinity(key)}
        \cup {[key |-> Affinity(key), val |-> val, ttl |-> ttl, vtype |-> vtype]}

\* (mutant) #SELECT without its expiry filter
SqlSelectUnfiltered(t, key, bound) == {r \in t : r.key = Affinity(key)}

\* #SELECT: the rows of the result
SqlSelect(t, key, bound) ==
    {r \in t : r.key = Affinity(key) /\ NotExpired(r, bound)}

\* (mutant) #LIST without its expiry filter
SqlListUnfiltered(t, pattern, bound, limit) ==
    LET matching == {r \in t : Like(pattern, r.key.text)}
        n == IF Cardinality(matching) < limit THEN Cardinality(matching) ELSE limit
    IN  {rows \in SUBSET matching : Cardinality(rows) = n}

\* #LIST: the results the statement may give; which rows it keeps when more
\* than limit match is the engine's choice
SqlList(t, pattern, bound, limit) ==
    LET matching == {r \in t : Like(pattern, r.key.text) /\ NotExpired(r, bound)}
        n == IF Cardinality(matching) < limit THEN Cardinality(matching) ELSE limit
    IN  {rows \in SUBSET matching : Cardinality(rows) = n}

\* (mutant) #DELETE on a key column that compares the text as it was given
SqlDeleteAsText(t, key) == {r \in t : r.key # [type |-> "text", text |-> key]}

\* #DELETE
SqlDelete(t, key) == {r \in t : r.key # Affinity(key)}

\* (mutant) #CLEAR that spares the rows that never expire
SqlClearExpiring(t) == {r \in t : r.ttl = 0}

\* #CLEAR
SqlClear(t) == {}

\* (mutant) #CLEANUP that also deletes the rows expiring at the bound
SqlCleanupInclusive(t, bound) == {r \in t : ~(r.ttl > 0 /\ r.ttl <= bound)}

\* #CLEANUP
SqlCleanup(t, bound) == {r \in t : ~(r.ttl > 0 /\ r.ttl < bound)}

-----------------------------------------------------------------------------
(* The synchronous parts of the methods *)

\* Every number a caller passes is an integer (seconds, counts), on which
\* Math.trunc changes nothing; it is therefore not written out below.

Min(a, b) == IF a < b THEN a ELSE b
Max(a, b) == IF a > b THEN a ELSE b

\* get(key) evaluated on table t at time n
get(t, key, n) ==
    LET result == SqlSelect(t, key, n) IN
    IF result = {} THEN Undefined
    ELSE LET row == CHOOSE r \in result : TRUE IN toUseValue(row.val, row.vtype)

\* (mutant) the pattern of list() without the wildcard it appends
ListPatternExact(prefix) ==
    IF prefix = <<>> THEN <<>> ELSE prefix[1]

\* the pattern list() binds to LIKE
ListPattern(prefix) ==
    IF prefix = << <<"%">> >> THEN <<"%">>
    ELSE (IF prefix = <<>> THEN <<>> ELSE prefix[1]) \o <<"%">>

\* (mutant) the limit of list() without the floor of 1
ListLimitNoFloor(limit) ==
    Max(Min(IF limit = <<>> THEN DefaultLimit ELSE limit[1], MaxLimit), 0)

\* the limit list() binds
ListLimit(limit) ==
    Min(Max(IF limit = <<>> THEN DefaultLimit ELSE limit[1], MinLimit), MaxLimit)

\* new Map(result.map(({ key, ttl }) => [key, ttl]))
ToMap(rows) ==
    [k \in {r.key : r \in rows} |-> (CHOOSE r \in rows : r.key = k).ttl]

\* (mutant) list() that binds now whatever ignoreTtl says
listAlwaysFiltered(t, prefix, limit, ignoreTtl, n) ==
    {ToMap(rows) : rows \in SqlList(t, ListPattern(prefix), n, ListLimit(limit))}

\* list(options, ignoreTtl) evaluated on table t at time n: the maps it may return
list(t, prefix, limit, ignoreTtl, n) ==
    {ToMap(rows) : rows \in
        SqlList(t, ListPattern(prefix), IF ignoreTtl THEN 0 ELSE n, ListLimit(limit))}

\* (mutant) #cleanup() that never sweeps
cleanupNever(t, tm, iv, n) == [table |-> t, timing |-> tm, swept |-> FALSE]

\* (mutant) #cleanup() without its throttle
cleanupAlways(t, tm, iv, n) ==
    [table |-> SqlCleanup(t, n), timing |-> n + iv, swept |-> TRUE]

\* (mutant) #cleanup() that also sweeps when #timing equals now
cleanupAtThreshold(t, tm, iv, n) ==
    IF tm > n THEN [table |-> t, timing |-> tm, swept |-> FALSE]
    ELSE [table |-> SqlCleanup(t, n), timing |-> n + iv, swept |-> TRUE]

\* #cleanup() on table t: the table and #timing it leaves
cleanup(t, tm, iv, n) ==
    IF tm >= n THEN [table |-> t, timing |-> tm, swept |-> FALSE]
    ELSE [table |-> SqlCleanup(t, n), timing |-> n + iv, swept |-> TRUE]

-----------------------------------------------------------------------------
(* What the callers pass *)

Keys == {<<"a", "B">>, <<"0", "1">>}
Values == {Str(<<"0", "0">>), Buf(<<0>>), Buf(<<>>)}
Expirations == {<<>>} \cup {<<e>> : e \in -1..MaxExp}
Intervals == -1..MaxInterval

\* the list calls made, each a prefix and a limit (either may be omitted):
\* no options, limits 1, 0, -1 and 1001, and the prefixes "", "%", "_", "a", "A"
ListCalls ==
    {<< <<>>, <<>> >>, << <<>>, <<1>> >>, << <<>>, <<0>> >>, << <<>>, <<-1>> >>,
     << << <<>> >>, <<>> >>,
     << << <<"%">> >>, <<>> >>, << << <<"_">> >>, <<>> >>, << << <<"a">> >>, <<>> >>,
     << << <<"A">> >>, <<1001>> >>}

-----------------------------------------------------------------------------
(* The state when the constructor of the first instance has returned: the   *)
(* storage is empty, the fields hold their initialisers, and the callback   *)
(* #initialize gave to blockConcurrencyWhile has yet to run.                *)

Init ==
    /\ table = {}
    /\ interval = DefaultInterval
    /\ timing = InitialTiming
    /\ now = 1
    /\ pending = <<>>
    /\ last = [op |-> "constructor"]
    /\ written = <<>>
    /\ codec = <<>>
    /\ init = FALSE
    /\ schema = {}
    /\ boot = "isTable"
    /\ created = [table |-> 0, index |-> 0]
    /\ sweptAt = <<>>
    /\ adapter = <<>>

\* the history of the rows that are in table t
Written(t, w) == [k \in {r.key : r \in t} |-> w[k]]

-----------------------------------------------------------------------------
(* The schema bootstrap: the callback of #initialize, one step per await or *)
(* statement.  blockConcurrencyWhile delivers no call to the instance until *)
(* the callback has finished (boot = "ready").                              *)

\* (mutant) #isTable that never finds the flag
isTableNeverSet ==
    /\ boot = "isTable"
    /\ boot' = "createTable"
    /\ last' = [op |-> "isTable", result |-> FALSE]
    /\ UNCHANGED <<table, interval, timing, now, pending, written, codec,
                   init, schema, created, sweptAt>>

\* if (await DOKVS.#isTable(ctx)) return;
isTable ==
    /\ boot = "isTable"
    /\ boot' = IF init THEN "ready" ELSE "createTable"
    /\ last' = [op |-> "isTable", result |-> init]
    /\ UNCHANGED <<table, interval, timing, now, pending, written, codec,
                   init, schema, created, sweptAt>>

\* #createTable: await ctx.storage.put("init", true)
createTablePutInit ==
    /\ boot = "createTable"
    /\ init' = TRUE
    /\ boot' = "execTable"
    /\ last' = [op |-> "createTable", step |-> "init"]
    /\ UNCHANGED <<table, interval, timing, now, pending, written, codec,
                   schema, created, sweptAt>>

\* #createTable: ctx.storage.sql.exec(DOKVS.#TABLE), create table if not exists
createTableExecTable ==
    /\ boot = "execTable"
    /\ schema' = schema \cup {"dokvs"}
    /\ created' = [created EXCEPT !.table = Min(@ + 1, MaxCreated)]
    /\ boot' = "execIndex"
    /\ last' = [op |-> "createTable", step |-> "table"]
    /\ UNCHANGED <<table, interval, timing, now, pending, written, codec, init, sweptAt>>

\* #createTable: ctx.storage.sql.exec(DOKVS.#INDEX), create index; it raises
\* "index expindex already exists" when the index is there, which breaks the
\* instance
createTableExecIndex ==
    /\ boot = "execIndex"
    /\ IF "expindex" \in schema
       THEN /\ boot' = "broken"
            /\ UNCHANGED schema
       ELSE /\ boot' = "ready"
            /\ schema' = schema \cup {"expindex"}
    /\ created' = [created EXCEPT !.index = Min(@ + 1, MaxCreated)]
    /\ last' = [op |-> "createTable", step |-> "index"]
    /\ UNCHANGED <<table, interval, timing, now, pending, written, codec, init, sweptAt>>

\* the instance is evicted once its deferred units have run, and the next
\* request constructs a new instance over the same storage
\* (mutant) an instance torn down while a deferred unit still waits
ConstructEarly ==
    /\ boot = "ready"
    /\ interval' = DefaultInterval
    /\ timing' = InitialTiming
    /\ boot' = "isTable"
    /\ pending' = <<>>
    /\ last' = [op |-> "constructor"]
    /\ sweptAt' = IF sweptAt = <<>> THEN <<>>
                  ELSE [at |-> sweptAt.at, interval |-> sweptAt.interval, here |-> FALSE]
    /\ UNCHANGED <<table, now, written, codec, init, schema, created>>

\* (mutant) a construction that finds the cleanup interval and the next sweep
\* time of the instance before it
ConstructKeepingTimer ==
    /\ boot = "ready"
    /\ pending = <<>>
    /\ boot' = "isTable"
    /\ last' = [op |-> "constructor"]
    /\ sweptAt' = IF sweptAt = <<>> THEN <<>>
                  ELSE [at |-> sweptAt.at, interval |-> sweptAt.interval, here |-> FALSE]
    /\ UNCHANGED <<table, interval, timing, now, pending, written, codec, init, schema,
                   created>>

\* the instance is evicted (only once every promise given to ctx.waitUntil has
\* settled) and constructed again on the same storage
Construct ==
    /\ boot = "ready"
    /\ pending = <<>>
    /\ interval' = DefaultInterval
    /\ timing' = InitialTiming
    /\ boot' = "isTable"
    /\ last' = [op |-> "constructor"]
    /\ sweptAt' = IF sweptAt = <<>> THEN <<>>
                  ELSE [at |-> sweptAt.at, interval |-> sweptAt.interval, here |-> FALSE]
    /\ UNCHANGED <<table, now, pending, written, codec, init, schema, created>>

-----------------------------------------------------------------------------
(* The methods.  put, delete and clear return after handing their statement *)
(* to ctx.waitUntil as a deferred unit; RunDeferred is that unit running.   *)

\* (mutant) put() without its write-time expiry check
PutCallUnchecked(key, value, expiration) ==
    LET exp == IF expiration = <<>> THEN 0 ELSE expiration[1]
        stored == toStoreValue(value)
    IN  /\ pending' = Append(pending, [op |-> "put", key |-> key, value |-> value,
                                       v |-> stored.val, exp |-> exp, vt |-> stored.vtype])
        /\ last' = [op |-> "put", key |-> key, expiration |-> expiration, queued |-> TRUE]
        /\ UNCHANGED <<table, interval, timing, now, written, codec, init, schema, boot, created, sweptAt>>

\* put(key, value, expiration)
PutCall(key, value, expiration) ==
    LET exp == IF expiration = <<>> THEN 0 ELSE expiration[1]
        rejected == exp # 0 /\ exp < now
        stored == toStoreValue(value)
    IN  /\ pending' =
            IF rejected THEN pending
            ELSE Append(pending, [op |-> "put", key |-> key, value |-> value,
                                  v |-> stored.val, exp |-> exp, vt |-> stored.vtype])
        /\ last' = [op |-> "put", key |-> key, expiration |-> expiration,
                    queued |-> ~rejected]
        /\ UNCHANGED <<table, interval, timing, now, written, codec, init, schema, boot, created, sweptAt>>

\* delete(key)
DeleteCall(key) ==
    /\ pending' = Append(pending, [op |-> "delete", key |-> key])
    /\ last' = [op |-> "delete", key |-> key]
    /\ UNCHANGED <<table, interval, timing, now, written, codec, init, schema, boot, created, sweptAt>>

\* clear()
ClearCall ==
    /\ pending' = Append(pending, [op |-> "clear"])
    /\ last' = [op |-> "clear"]
    /\ UNCHANGED <<table, interval, timing, now, written, codec, init, schema, boot, created, sweptAt>>

\* (mutant) get() that runs #cleanup() as the writes do
GetCallSweeping(key) ==
    LET after == cleanup(table, timing, interval, now) IN
    /\ last' = [op |-> "get", key |-> key, result |-> get(table, key, now)]
    /\ table' = after.table
    /\ timing' = after.timing
    /\ written' = Written(after.table, written)
    /\ UNCHANGED <<interval, now, pending, codec, init, schema, boot, created, sweptAt>>

\* get(key)
GetCall(key) ==
    /\ last' = [op |-> "get", key |-> key, result |-> get(table, key, now)]
    /\ UNCHANGED <<table, interval, timing, now, pending, written, codec, init, schema, boot, created, sweptAt>>

\* list({prefix, limit}, ignoreTtl)
ListCall(prefix, limit, ignoreTtl) ==
    /\ \E result \in list(table, prefix, limit, ignoreTtl, now) :
          last' = [op |-> "list", prefix |-> prefix, limit |-> limit,
                   ignoreTtl |-> ignoreTtl, result |-> result]
    /\ UNCHANGED <<table, interval, timing, now, pending, written, codec, init, schema, boot, created, sweptAt>>

\* (mutant) setCleanupInterval() without its check of the interval
SetCleanupIntervalUnchecked(i, reset) ==
    /\ interval' = i
    /\ timing' = IF reset THEN now + i ELSE timing
    /\ sweptAt' = IF reset THEN <<>> ELSE sweptAt
    /\ last' = [op |-> "setCleanupInterval", interval |-> i, reset |-> reset]
    /\ UNCHANGED <<table, now, pending, written, codec, init, schema, boot, created>>

\* (mutant) setCleanupInterval() that never resets the timer
SetCleanupIntervalNoReset(i, reset) ==
    /\ IF i <= 0 THEN UNCHANGED interval ELSE interval' = i
    /\ last' = [op |-> "setCleanupInterval", interval |-> i, reset |-> reset]
    /\ UNCHANGED <<table, timing, now, pending, written, codec, init, schema, boot,
                   created, sweptAt>>

\* (mutant) setCleanupInterval() that resets the timer whatever reset says
SetCleanupIntervalAlwaysReset(i, reset) ==
    /\ IF i <= 0 THEN UNCHANGED <<interval, timing, sweptAt>>
       ELSE /\ interval' = i
            /\ timing' = now + i
            /\ sweptAt' = <<>>
    /\ last' = [op |-> "setCleanupInterval", interval |-> i, reset |-> reset]
    /\ UNCHANGED <<table, now, pending, written, codec, init, schema, boot, created>>

\* setCleanupInterval(interval, reset)
SetCleanupInterval(i, reset) ==
    /\ IF i <= 0 THEN UNCHANGED <<interval, timing, sweptAt>>
       ELSE /\ interval' = i
            /\ timing' = IF reset THEN now + i ELSE timing
            /\ sweptAt' = IF reset THEN <<>> ELSE sweptAt
    /\ last' = [op |-> "setCleanupInterval", interval |-> i, reset |-> reset]
    /\ UNCHANGED <<table, now, pending, written, codec, init, schema, boot, created>>

\* (mutant) the unit queued last runs first
RunDeferredLast ==
    /\ pending # <<>>
    /\ LET unit == pending[Len(pending)] IN
       /\ pending' = SubSeq(pending, 1, Len(pending) - 1)
       /\ IF unit.op = "put"
          THEN LET put == SqlUpsert(table, unit.key, unit.v, unit.exp, unit.vt)
                   after == cleanup(put, timing, interval, now)
               IN  /\ table' = after.table
                   /\ timing' = after.timing
                   /\ last' = [op |-> "deferred", unit |-> unit, swept |-> after.swept,
                               removed |-> {r.ttl : r \in put \ after.table},
                               before |-> [timing |-> timing, sweptAt |-> sweptAt]]
                   /\ sweptAt' = IF after.swept
                                 THEN [at |-> now, interval |-> interval, here |-> TRUE]
                                 ELSE sweptAt
                   /\ written' = Written(after.table,
                          [k \in {r.key : r \in put} |->
                              IF k = Affinity(unit.key)
                              THEN [key |-> unit.key, value |-> unit.value]
                              ELSE written[k]])
          ELSE /\ table' = IF unit.op = "delete" THEN SqlDelete(table, unit.key)
                           ELSE SqlClear(table)
               /\ timing' = timing
               /\ last' = [op |-> "deferred", unit |-> unit, swept |-> FALSE,
                               removed |-> {r.ttl : r \in table \ table'}]
               /\ sweptAt' = sweptAt
               /\ written' = Written(table', written)
    /\ UNCHANGED <<interval, now, codec, init, schema, boot, created>>

\* the deferred unit at the head of the queue runs
RunDeferred ==
    /\ pending # <<>>
    /\ LET unit == Head(pending) IN
       /\ pending' = Tail(pending)
       /\ IF unit.op = "put"
          THEN LET put == SqlUpsert(table, unit.key, unit.v, unit.exp, unit.vt)
                   after == cleanup(put, timing, interval, now)
               IN  /\ table' = after.table
                   /\ timing' = after.timing
                   /\ last' = [op |-> "deferred", unit |-> unit, swept |-> after.swept,
                               removed |-> {r.ttl : r \in put \ after.table},
                               before |-> [timing |-> timing, sweptAt |-> sweptAt]]
                   /\ sweptAt' = IF after.swept
                                 THEN [at |-> now, interval |-> interval, here |-> TRUE]
                                 ELSE sweptAt
                   /\ written' = Written(after.table,
                          [k \in {r.key : r \in put} |->
                              IF k = Affinity(unit.key)
                              THEN [key |-> unit.key, value |-> unit.value]
                              ELSE written[k]])
          ELSE /\ table' = IF unit.op = "delete" THEN SqlDelete(table, unit.key)
                           ELSE SqlClear(table)
               /\ timing' = timing
               /\ last' = [op |-> "deferred", unit |-> unit, swept |-> FALSE,
                               removed |-> {r.ttl : r \in table \ table'}]
               /\ sweptAt' = sweptAt
               /\ written' = Written(table', written)
    /\ UNCHANGED <<interval, now, codec, init, schema, boot, created>>

\* a second passes
Tick ==
    /\ now < MaxNow
    /\ now' = now + 1
    /\ last' = [op |-> "tick"]
    /\ UNCHANGED <<table, interval, timing, pending, written, codec, init, schema, boot, created, sweptAt>>

\* (mutant) calls delivered while the bootstrap is still running
IdleUnblocked == boot # "broken" /\ pending = <<>>

\* a call can be delivered: the bootstrap has finished, and the microtask the
\* previous call queued has run
Idle == boot = "ready" /\ pending = <<>>

\* One call is delivered to the instance at a time, and the microtask a call
\* queued runs before the next call is delivered.
\* (the methods of DOKVS are called on the instance directly here, as the
\* tests of the class do; the caller's side stays as it is)
Next ==
    \/ (isTable /\ UNCHANGED adapter)
    \/ (createTablePutInit /\ UNCHANGED adapter)
    \/ (createTableExecTable /\ UNCHANGED adapter)
    \/ (createTableExecIndex /\ UNCHANGED adapter)
    \/ (Construct /\ UNCHANGED adapter)
    \/ (Idle /\ UNCHANGED adapter
            /\ \E k \in Keys, v \in Values, e \in Expirations : PutCall(k, v, e))
    \/ (Idle /\ UNCHANGED adapter /\ \E k \in Keys : DeleteCall(k))
    \/ (Idle /\ UNCHANGED adapter /\ ClearCall)
    \/ (Idle /\ UNCHANGED adapter /\ \E k \in Keys : GetCall(k))
    \/ (Idle /\ UNCHANGED adapter
            /\ \E c \in ListCalls, i \in BOOLEAN : ListCall(c[1], c[2], i))
    \/ (Idle /\ UNCHANGED adapter
            /\ \E i \in Intervals, r \in BOOLEAN : SetCleanupInterval(i, r))
    \/ (RunDeferred /\ UNCHANGED adapter)
    \/ (Tick /\ UNCHANGED adapter)

Spec == Init /\ [][Next]_vars

-----------------------------------------------------------------------------
(* The value codec on its own: a value is encoded by #toStoreValue, and the *)
(* stored text is decoded by #toUseValue.                                   *)

ByteSamples == {0, 1, 15, 16, 171, 255}
BinInputs == UNION {[1..n -> ByteSamples] : n \in 0..MaxBinLen}
StrInputs == {<<>>, <<"0">>, <<"0", "0">>, <<"a", "B">>}
CodecInputs == {Buf(b) : b \in BinInputs} \cup {Str(s) : s \in StrInputs}

InitCodec ==
    /\ table = {}
    /\ interval = DefaultInterval
    /\ timing = InitialTiming
    /\ now = 1
    /\ pending = <<>>
    /\ last = [op |-> "constructor"]
    /\ written = <<>>
    /\ codec \in {[value |-> v] : v \in CodecInputs}
    /\ init = FALSE
    /\ schema = {}
    /\ boot = "isTable"
    /\ created = [table |-> 0, index |-> 0]
    /\ sweptAt = <<>>
    /\ adapter = <<>>

Encode ==
    /\ DOMAIN codec = {"value"}
    /\ codec' = [value |-> codec.value, stored |-> toStoreValue(codec.value)]
    /\ UNCHANGED <<table, interval, timing, now, pending, last, written, init, schema, boot,
                   created, sweptAt, adapter>>

Decode ==
    /\ DOMAIN codec = {"value", "stored"}
    /\ codec' = [value |-> codec.value, stored |-> codec.stored,
                 used |-> toUseValue(codec.stored.val, codec.stored.vtype)]
    /\ UNCHANGED <<table, interval, timing, now, pending, last, written, init, schema, boot,
                   created, sweptAt, adapter>>

NextCodec == Encode \/ Decode

SpecCodec == InitCodec /\ [][NextCodec]_vars

-----------------------------------------------------------------------------
(* Binding resolution (src/main.ts).  A JavaScript value is an environment  *)
(* object (its properties: binding names to what is bound), a string, a     *)
(* binding of some kind, or undefined.  The getters are declared with the   *)
(* parameters (name, env); a call binds its first argument to name and its  *)
(* second to env, whatever the caller meant them to be.                     *)

BindingNames == {"MY_BINDING", "MY_OTHER"}
BindingKinds == {"KVNamespace", "DurableObjectNamespace", "D1Database", "Hyperdrive",
                 "R2Bucket"}

JsUndefined == [type |-> "undefined"]
JsString(str) == [type |-> "string", str |-> str]
JsNumber == [type |-> "number"]
JsBinding(kind) == [type |-> "binding", kind |-> kind]
\* an Env: each name is bound to a binding of a kind, to some object that is
\* no binding ("object"), or to nothing ("none")
JsEnv(props) == [type |-> "env", props |-> props]
Envs == {JsEnv(props) : props \in [BindingNames -> BindingKinds \cup {"object", "none"}]}

ThrownError == [tag |-> "Error"]

\* the property key a value is converted to: a string is its own key, an object
\* is converted by Object.prototype.toString
ToPropertyKey(k) == IF k.type = "string" THEN k.str ELSE "[object Object]"

\* getEnvProp(env, name): env[name]
getEnvProp(env, name) ==
    LET key == ToPropertyKey(name) IN
    IF env.type = "env"
    THEN IF key \in DOMAIN env.props /\ env.props[key] # "none"
         THEN JsBinding(env.props[key]) ELSE JsUndefined
    ELSE IF env.type = "string" /\ key = "length" THEN JsNumber
    ELSE JsUndefined

isKVNamespace(obj) == obj.type = "binding" /\ obj.kind = "KVNamespace"
isDurableObjectNamespace(obj) == obj.type = "binding" /\ obj.kind = "DurableObjectNamespace"
isD1Database(obj) == obj.type = "binding" /\ obj.kind = "D1Database"
isHyperdrive(obj) == obj.type = "binding" /\ obj.kind = "Hyperdrive"
isR2Bucket(obj) == obj.type = "binding" /\ obj.kind = "R2Bucket"

\* what a getter returns: a store with its consistency, or the connection string
Store(class, consistency) == [tag |-> "value", class |-> class, consistency |-> consistency]
ConnectionString == [tag |-> "value", class |-> "string", consistency |-> "none"]

getKVSEventual(name, env) ==
    IF isKVNamespace(getEnvProp(env, name)) THEN Store("KVEventualStore", "eventual")
    ELSE ThrownError

getKVSRealtime(name, env) ==
    IF isDurableObjectNamespace(getEnvProp(env, name)) THEN Store("KVRealtimeStore", "strong")
    ELSE ThrownError

getRDBEventual(name, env) ==
    IF isD1Database(getEnvProp(env, name)) THEN Store("RDBEventualStore", "eventual")
    ELSE ThrownError

getRDBConnectionString(name, env) ==
    IF isHyperdrive(getEnvProp(env, name)) THEN ConnectionString
    ELSE ThrownError

getBOS(name, env) ==
    IF isR2Bucket(getEnvProp(env, name)) THEN Store("BOStore", "strong")
    ELSE ThrownError

Getters == {"getKVSEventual", "getKVSRealtime", "getRDBEventual", "getRDBConnectionString",
            "getBOS"}

\* the call getter(first, second)
CallGetter(getter, first, second) ==
    CASE getter = "getKVSEventual" -> getKVSEventual(first, second)
      [] getter = "getKVSRealtime" -> getKVSRealtime(first, second)
      [] getter = "getRDBEventual" -> getRDBEventual(first, second)
      [] getter = "getRDBConnectionString" -> getRDBConnectionString(first, second)
      [] getter = "getBOS" -> getBOS(first, second)

InitGetters ==
    /\ table = {}
    /\ interval = DefaultInterval
    /\ timing = InitialTiming
    /\ now = 1
    /\ pending = <<>>
    /\ last = [op |-> "constructor"]
    /\ written = <<>>
    /\ codec = <<>>
    /\ init = FALSE
    /\ schema = {}
    /\ boot = "isTable"
    /\ created = [table |-> 0, index |-> 0]
    /\ sweptAt = <<>>
    /\ adapter \in {[getter |-> g, env |-> e, name |-> n] :
                       g \in Getters, e \in Envs, n \in BindingNames}

\* the call as the tests, the README and the examples of the doc comments
\* make it: getter(env, "NAME")
CallAsDocumented ==
    /\ DOMAIN adapter = {"getter", "env", "name"}
    /\ adapter' = [getter |-> adapter.getter, env |-> adapter.env, name |-> adapter.name,
                   call |-> "getter(env, name)",
                   result |-> CallGetter(adapter.getter, adapter.env, JsString(adapter.name))]
    /\ UNCHANGED <<table, interval, timing, now, pending, last, written, codec,
                   init, schema, boot, created, sweptAt>>

\* the call as the parameters are declared: getter("NAME", env)
CallAsDeclared ==
    /\ DOMAIN adapter = {"getter", "env", "name"}
    /\ adapter' = [getter |-> adapter.getter, env |-> adapter.env, name |-> adapter.name,
                   call |-> "getter(name, env)",
                   result |-> CallGetter(adapter.getter, JsString(adapter.name), adapter.env)]
    /\ UNCHANGED <<table, interval, timing, now, pending, last, written, codec,
                   init, schema, boot, created, sweptAt>>

NextGetters == CallAsDocumented \/ CallAsDeclared

SpecGetters == InitGetters /\ [][NextGetters]_vars

-----------------------------------------------------------------------------
(* The writes under the scheduling of the host: the callback that put,      *)
(* delete and clear hand to Promise.resolve().then() is a microtask, which  *)
(* the event loop runs once the method has returned, and ctx.waitUntil      *)
(* keeps the instance until it has settled.  Hence weak fairness of         *)
(* RunDeferred.                                                             *)

LiveValues == {Str(<<"0", "0">>)}

NextLive ==
    \/ (isTable /\ UNCHANGED adapter)
    \/ (createTablePutInit /\ UNCHANGED adapter)
    \/ (createTableExecTable /\ UNCHANGED adapter)
    \/ (createTableExecIndex /\ UNCHANGED adapter)
    \/ (Construct /\ UNCHANGED adapter)
    \/ (Idle /\ UNCHANGED adapter
            /\ \E k \in Keys, v \in LiveValues, e \in Expirations : PutCall(k, v, e))
    \/ (Idle /\ UNCHANGED adapter /\ \E k \in Keys : DeleteCall(k))
    \/ (Idle /\ UNCHANGED adapter /\ ClearCall)
    \/ (RunDeferred /\ UNCHANGED adapter)
    \/ (Tick /\ UNCHANGED adapter)

SpecLive ==
    Init /\ [][NextLive]_vars /\ WF_vars(RunDeferred /\ UNCHANGED adapter)

-----------------------------------------------------------------------------
(* The store on a storage engine whose statements may fail: ctx.storage.sql *)
(* .exec throws.  get and list execute their statement in the method, so    *)
(* the exception leaves the method; put, delete and clear execute theirs in *)
(* the callback of Promise.resolve().then(), after the method has returned, *)
(* so the exception rejects the promise that was given to ctx.waitUntil.    *)

StorageError == [tag |-> "StorageError"]

\* get(key) whose #SELECT throws
GetCallFailing(key) ==
    /\ last' = [op |-> "get", key |-> key, result |-> StorageError,
                error |-> StorageError, raisedTo |-> "caller"]
    /\ UNCHANGED <<table, interval, timing, now, pending, written, codec, init, schema,
                   boot, created, sweptAt>>

\* list(options, ignoreTtl) whose #LIST throws
ListCallFailing(prefix, limit, ignoreTtl) ==
    /\ last' = [op |-> "list", prefix |-> prefix, limit |-> limit,
                ignoreTtl |-> ignoreTtl, result |-> StorageError,
                error |-> StorageError, raisedTo |-> "caller"]
    /\ UNCHANGED <<table, interval, timing, now, pending, written, codec, init, schema,
                   boot, created, sweptAt>>

\* a deferred unit whose statement (#UPSERT, #DELETE or #CLEAR) throws: the
\* callback ends there (a put's #cleanup is not reached), nothing queues it again
RunDeferredFailing ==
    /\ pending # <<>>
    /\ pending' = Tail(pending)
    /\ last' = [op |-> "deferred", unit |-> Head(pending), swept |-> FALSE,
                removed |-> {}, error |-> StorageError, raisedTo |-> "waitUntil"]
    /\ UNCHANGED <<table, interval, timing, now, written, codec, init, schema, boot,
                   created, sweptAt>>

\* the deferred unit of a put whose #UPSERT succeeds and whose #CLEANUP throws:
\* #cleanup has set #timing before it executes the statement
RunDeferredCleanupFailing ==
    /\ pending # <<>>
    /\ Head(pending).op = "put"
    /\ timing < now
    /\ pending' = Tail(pending)
    /\ LET unit == Head(pending)
           put == SqlUpsert(table, unit.key, unit.v, unit.exp, unit.vt)
       IN  /\ table' = put
           /\ written' = Written(put,
                  [k \in {r.key : r \in put} |->
                      IF k = Affinity(unit.key)
                      THEN [key |-> unit.key, value |-> unit.value]
                      ELSE written[k]])
           /\ last' = [op |-> "deferred", unit |-> unit, swept |-> FALSE,
                       removed |-> {}, error |-> StorageError, raisedTo |-> "waitUntil"]
    /\ timing' = now + interval
    /\ UNCHANGED <<interval, now, codec, init, schema, boot, created, sweptAt>>

FaultyListCalls == {<< <<>>, <<>> >>, << << <<"a">> >>, <<1>> >>}

NextFaulty ==
    \/ (isTable /\ UNCHANGED adapter)
    \/ (createTablePutInit /\ UNCHANGED adapter)
    \/ (createTableExecTable /\ UNCHANGED adapter)
    \/ (createTableExecIndex /\ UNCHANGED adapter)
    \/ (Idle /\ UNCHANGED adapter
            /\ \E k \in Keys, v \in LiveValues, e \in Expirations : PutCall(k, v, e))
    \/ (Idle /\ UNCHANGED adapter /\ \E k \in Keys : DeleteCall(k))
    \/ (Idle /\ UNCHANGED adapter /\ ClearCall)
    \/ (Idle /\ UNCHANGED adapter /\ \E k \in Keys : GetCall(k))
    \/ (Idle /\ UNCHANGED adapter /\ \E k \in Keys : GetCallFailing(k))
    \/ (Idle /\ UNCHANGED adapter
            /\ \E c \in FaultyListCalls, i \in BOOLEAN : ListCall(c[1], c[2], i))
    \/ (Idle /\ UNCHANGED adapter
            /\ \E c \in FaultyListCalls, i \in BOOLEAN : ListCallFailing(c[1], c[2], i))
    \/ (RunDeferred /\ UNCHANGED adapter)
    \/ (RunDeferredFailing /\ UNCHANGED adapter)
    \/ (RunDeferredCleanupFailing /\ UNCHANGED adapter)
    \/ (Tick /\ UNCHANGED adapter)

SpecFaulty == Init /\ [][NextFaulty]_vars

-----------------------------------------------------------------------------
(* The store under keys that differ only in their numeric spelling or in    *)
(* the case of their letters.                                               *)

IsoKeys == {<<"0", "1">>, <<"1">>, <<"a", "B">>, <<"a", "b">>}
IsoValues == {Str(<<"0", "0">>), Str(<<"1">>)}

NextKeys ==
    \/ (isTable /\ UNCHANGED adapter)
    \/ (createTablePutInit /\ UNCHANGED adapter)
    \/ (createTableExecTable /\ UNCHANGED adapter)
    \/ (createTableExecIndex /\ UNCHANGED adapter)
    \/ (Idle /\ UNCHANGED adapter
            /\ \E k \in IsoKeys, v \in IsoValues : PutCall(k, v, <<>>))
    \/ (Idle /\ UNCHANGED adapter /\ \E k \in IsoKeys : DeleteCall(k))
    \/ (Idle /\ UNCHANGED adapter /\ \E k \in IsoKeys : GetCall(k))
    \/ (Idle /\ UNCHANGED adapter /\ ListCall(<<>>, <<>>, FALSE))
    \/ (RunDeferred /\ UNCHANGED adapter)

SpecKeys == Init /\ [][NextKeys]_vars

-----------------------------------------------------------------------------
(* Several writes issued before their deferred units run (one turn: a       *)
(* method of a subclass, or a handler, calling put, delete and clear in a   *)
(* row), beside a reference store that applies every accepted write at once *)
(* when it is called.  The reference is kept in adapter: its table ref, its *)
(* next sweep time, whether every unit so far ran within the second of its  *)
(* call (exact), and the units queued since the queue was last empty.       *)

MaxPending == 2    \* writes issued before the queue is empty again

OrderExpirations == {<<>>, <<1>>, <<2>>}

Ref ==
    IF adapter = <<>>
    THEN [ref |-> {}, timing |-> InitialTiming, exact |-> TRUE, calls |-> <<>>]
    ELSE adapter

\* the statements of a unit, executed at once on the reference at time n
ApplySync(r, unit, n) ==
    IF unit.op = "put"
    THEN LET after == cleanup(SqlUpsert(r.ref, unit.key, unit.v, unit.exp, unit.vt),
                              r.timing, interval, n)
         IN  [r EXCEPT !.ref = after.table, !.timing = after.timing]
    ELSE IF unit.op = "delete" THEN [r EXCEPT !.ref = SqlDelete(r.ref, unit.key)]
    ELSE [r EXCEPT !.ref = SqlClear(r.ref)]

\* the reference after the write call of this step
Called ==
    IF Len(pending') > Len(pending)
    THEN LET unit == pending'[Len(pending')]
             r == ApplySync(Ref, unit, now)
         IN  [r EXCEPT !.calls = IF pending = <<>> THEN <<unit>> ELSE Append(@, unit)]
    ELSE Ref

CanQueue ==
    /\ boot = "ready"
    /\ pending # <<>> => Len(Ref.calls) < MaxPending

OrderPut(key, value, expiration) ==
    /\ CanQueue
    /\ PutCall(key, value, expiration)
    /\ adapter' = Called

OrderDelete(key) ==
    /\ CanQueue
    /\ DeleteCall(key)
    /\ adapter' = Called

OrderClear ==
    /\ CanQueue
    /\ ClearCall
    /\ adapter' = Called

\* setCleanupInterval(i, true), between the turns
OrderSetCleanupInterval(i) ==
    /\ Idle
    /\ SetCleanupInterval(i, TRUE)
    /\ adapter' = [Ref EXCEPT !.timing = IF i > 0 THEN now + i ELSE @]

OrderTick ==
    /\ Tick
    /\ adapter' = IF pending # <<>> THEN [Ref EXCEPT !.exact = FALSE] ELSE adapter

NextOrder ==
    \/ (isTable /\ UNCHANGED adapter)
    \/ (createTablePutInit /\ UNCHANGED adapter)
    \/ (createTableExecTable /\ UNCHANGED adapter)
    \/ (createTableExecIndex /\ UNCHANGED adapter)
    \/ \E k \in Keys, v \in LiveValues, e \in OrderExpirations : OrderPut(k, v, e)
    \/ \E k \in Keys : OrderDelete(k)
    \/ OrderClear
    \/ OrderSetCleanupInterval(MaxInterval)
    \/ (RunDeferred /\ UNCHANGED adapter)
    \/ OrderTick

SpecOrder == Init /\ [][NextOrder]_vars

-----------------------------------------------------------------------------
(* The store beside a store that executes the same statements and never     *)
(* sweeps (#cleanup disabled); the table of the latter is kept in adapter.  *)

Sweepless == IF adapter = <<>> THEN {} ELSE adapter.nosweep

\* the deferred unit runs on both stores
SweeplessRun ==
    /\ RunDeferred
    /\ LET unit == Head(pending) IN
       adapter' = [nosweep |->
           IF unit.op = "put"
           THEN SqlUpsert(Sweepless, unit.key, unit.v, unit.exp, unit.vt)
           ELSE IF unit.op = "delete" THEN SqlDelete(Sweepless, unit.key)
           ELSE SqlClear(Sweepless)]

SweeplessListCalls == {<< <<>>, <<>> >>, << <<>>, <<1>> >>}

NextSweepless ==
    \/ (isTable /\ UNCHANGED adapter)
    \/ (createTablePutInit /\ UNCHANGED adapter)
    \/ (createTableExecTable /\ UNCHANGED adapter)
    \/ (createTableExecIndex /\ UNCHANGED adapter)
    \/ (Construct /\ UNCHANGED adapter)
    \/ (Idle /\ UNCHANGED adapter
            /\ \E k \in Keys, v \in LiveValues, e \in Expirations : PutCall(k, v, e))
    \/ (Idle /\ UNCHANGED adapter /\ \E k \in Keys : DeleteCall(k))
    \/ (Idle /\ UNCHANGED adapter /\ ClearCall)
    \/ (Idle /\ UNCHANGED adapter /\ \E k \in Keys : GetCall(k))
    \/ (Idle /\ UNCHANGED adapter
            /\ \E c \in SweeplessListCalls : ListCall(c[1], c[2], FALSE))
    \/ (Idle /\ UNCHANGED adapter
            /\ \E i \in Intervals, r \in BOOLEAN : SetCleanupInterval(i, r))
    \/ SweeplessRun
    \/ (Tick /\ UNCHANGED adapter)

SpecSweepless == Init /\ [][NextSweepless]_vars

-----------------------------------------------------------------------------
(* The store over several constructions, with what the current instance has *)
(* done since it was constructed kept in adapter: whether a deferred put    *)
(* has run on it and whether setCleanupInterval has reset its timer.        *)

Fresh == IF adapter = <<>> THEN [put |-> FALSE, reset |-> FALSE] ELSE adapter

FreshConstruct ==
    /\ Construct
    /\ adapter' = [put |-> FALSE, reset |-> FALSE]

FreshSetCleanupInterval(i, reset) ==
    /\ Idle
    /\ SetCleanupInterval(i, reset)
    /\ adapter' = [Fresh EXCEPT !.reset = @ \/ (i > 0 /\ reset)]

FreshRun ==
    /\ RunDeferred
    /\ adapter' = [Fresh EXCEPT !.put = @ \/ Head(pending).op = "put"]

NextFresh ==
    \/ (isTable /\ UNCHANGED adapter)
    \/ (createTablePutInit /\ UNCHANGED adapter)
    \/ (createTableExecTable /\ UNCHANGED adapter)
    \/ (createTableExecIndex /\ UNCHANGED adapter)
    \/ FreshConstruct
    \/ (Idle /\ UNCHANGED adapter
            /\ \E k \in Keys, v \in LiveValues, e \in Expirations : PutCall(k, v, e))
    \/ (Idle /\ UNCHANGED adapter /\ \E k \in Keys : DeleteCall(k))
    \/ \E i \in Intervals, r \in BOOLEAN : FreshSetCleanupInterval(i, r)
    \/ FreshRun
    \/ (Tick /\ UNCHANGED adapter)

SpecFresh == Init /\ [][NextFresh]_vars

-----------------------------------------------------------------------------
(* KVRealtimeStore (src/main.ts), the adapter in front of the store: put    *)
(* converts its options to an absolute expiration with #getTTL, at the      *)
(* caller's time, and sends the call to the instance, where it is delivered *)
(* then or later.  KVPutOptions is <<>> when omitted, else a record whose   *)
(* fields expiration and ttl are <<>> when absent.                          *)

MaxTtl == 1        \* ttl options range over -1..MaxTtl

OptionNumbers(S) == {<<>>} \cup {<<x>> : x \in S}
PutOptions ==
    {<<>>} \cup {<<[expiration |-> e, ttl |-> t]>> :
                    e \in OptionNumbers(0..MaxExp), t \in OptionNumbers(-1..MaxTtl)}

\* (mutant) #getTTL that passes the ttl on as it is
getTTLRelative(options, n) ==
    IF options = <<>> THEN 0
    ELSE IF options[1].expiration # <<>> /\ options[1].expiration[1] # 0
         THEN options[1].expiration[1]
    ELSE IF options[1].ttl = <<>> \/ options[1].ttl[1] = 0 THEN 0
    ELSE options[1].ttl[1]

\* KVRealtimeStore.#getTTL(options) at time n
getTTL(options, n) ==
    IF options = <<>> THEN 0
    ELSE IF options[1].expiration # <<>> /\ options[1].expiration[1] # 0
         THEN options[1].expiration[1]
    ELSE IF options[1].ttl = <<>> \/ options[1].ttl[1] = 0 THEN 0
    ELSE n + options[1].ttl[1]

AdapterKey == <<"a", "B">>
AdapterValue == Str(<<"0", "0">>)

\* an instance that has finished its bootstrap, with an empty table
InitAdapter ==
    /\ table = {}
    /\ interval = DefaultInterval
    /\ timing = InitialTiming
    /\ now = 1
    /\ pending = <<>>
    /\ last = [op |-> "isTable", result |-> FALSE]
    /\ written = <<>>
    /\ codec = <<>>
    /\ init = TRUE
    /\ schema = {"dokvs", "expindex"}
    /\ boot = "ready"
    /\ created = [table |-> 1, index |-> 1]
    /\ sweptAt = <<>>
    /\ adapter = <<>>

\* KVRealtimeStore.put(key, value, options): the call leaves the caller
AdapterPut(options) ==
    /\ Idle
    /\ adapter # <<>> => adapter.state # "sent"
    /\ adapter' = [op |-> "put", options |-> options, at |-> now,
                   exp |-> getTTL(options, now), state |-> "sent"]
    /\ UNCHANGED <<table, interval, timing, now, pending, last, written, codec,
                   init, schema, boot, created, sweptAt>>

\* the call reaches the instance: DOKVS.put(key, value, exp)
AdapterDeliver ==
    /\ Idle
    /\ adapter # <<>> /\ adapter.state = "sent"
    /\ PutCall(AdapterKey, AdapterValue, <<adapter.exp>>)
    /\ adapter' = [adapter EXCEPT !.state = IF adapter.exp # 0 /\ adapter.exp < now
                                           THEN "rejected" ELSE "queued"]

\* the deferred unit of that put runs
AdapterApplied ==
    /\ RunDeferred
    /\ adapter' = [adapter EXCEPT !.state = "applied"]

\* KVRealtimeStore.list(): DOKVS.list(options), ignoreTtl not given
AdapterList ==
    /\ Idle
    /\ ListCall(<<>>, <<>>, FALSE)
    /\ UNCHANGED adapter

NextAdapter ==
    \/ \E o \in PutOptions : AdapterPut(o)
    \/ AdapterDeliver
    \/ AdapterApplied
    \/ AdapterList
    \/ (Tick /\ UNCHANGED adapter)

SpecAdapter == InitAdapter /\ [][NextAdapter]_vars

-----------------------------------------------------------------------------
(* Notions the claims use *)

\* p is a prefix of s, character for character
StartsWith(s, p) == Len(p) <= Len(s) /\ SubSeq(s, 1, Len(p)) = p

\* the prefix string a list call asks for: none is the empty prefix
PrefixText(prefix) == IF prefix = <<>> THEN <<>> ELSE prefix[1]

\* the rows a caller's key k addresses
RowsOf(k) == {r \in table : r.key = Affinity(k)}

\* a row is live at time n
Live(r, n) == r.ttl = 0 \/ r.ttl >= n

\* the row's expiration has passed at time n
Expired(r, n) == r.ttl > 0 /\ r.ttl < n

\* an expiration argument that put refuses at time n
Refused(e, n) == e # <<>> /\ e[1] # 0 /\ e[1] < n

-----------------------------------------------------------------------------
(* The claims *)

\* C1: once the deferred write of a put with no expiration has run, get of the
\* same key returns the value that was put, a string as a string and a buffer
\* as a buffer.
C1_PutThenGet ==
    (last.op = "deferred" /\ last.unit.op = "put" /\ last.unit.exp = 0) =>
        get(table, last.unit.key, now) = Returned(last.unit.value)

\* C2 as stated: in every state, right after put(k, v, t) with t < now has
\* returned without queueing anything, get(k) returns undefined.
C2_ExpiredPutThenAbsent ==
    (last.op = "put" /\ last.expiration # <<>> /\ last.expiration[1] < now
        /\ pending = <<>>) =>
        get(table, last.key, now) = Undefined

\* C2 as amended: when k holds no live entry, right after put(k, v, t) with t
\* nonzero and t < now, get(k) returns undefined (an expired row that is still
\* in the table stays hidden).
C2_ExpiredPutKeepsAbsent ==
    (last.op = "put" /\ ~last.queued /\ \A r \in RowsOf(last.key) : ~Live(r, now)) =>
        get(table, last.key, now) = Undefined

C2_Witness ==
    /\ last.op = "put" /\ ~last.queued
    /\ RowsOf(last.key) # {}
    /\ \A r \in RowsOf(last.key) : Expired(r, now)

\* C3: a put whose expiration is nonzero and less than the current time raises
\* nothing, queues no deferred unit, and leaves every row, the cleanup interval
\* and the next sweep time as they were.
C3_ExpiredPutIsNoOp ==
    [][(last'.op = "put" /\ Refused(last'.expiration, now)) =>
          /\ UNCHANGED <<table, pending, interval, timing, written>>
          /\ ~last'.queued
      ]_vars

C3_Witness ==
    /\ last.op = "put" /\ ~last.queued /\ pending = <<>>
    /\ RowsOf(last.key) # {}
    /\ timing < now
    /\ \E r \in table : Expired(r, now)

\* C4: a row written with expiration 0 is returned by get of its key, with the
\* value that was put, at every later time, whatever sweeps have run.
C4_NeverExpires ==
    \A r \in table :
        r.ttl = 0 => get(table, written[r.key].key, now) = Returned(written[r.key].value)

\* C5: the codec's encoding of a buffer b is 2 * Len(b) lowercase hexadecimal
\* characters with kind BINARY, and decoding it gives b back, without error.
C5_BinaryRoundTrip ==
    codec # <<>> /\ codec.value.kind = "buffer" =>
        /\ "stored" \in DOMAIN codec =>
              /\ codec.stored.vtype = VTypeBuffer
              /\ Len(codec.stored.val) = 2 * Len(codec.value.bytes)
              /\ \A i \in 1..Len(codec.stored.val) : IsHexDigit(codec.stored.val[i])
        /\ "used" \in DOMAIN codec => codec.used = Returned(codec.value)

\* C6: get(k) returns a row's value as long as now <= its expiration T > 0 and
\* undefined once now > T; and get(k) returns undefined exactly when k has no
\* row or its row has a nonzero expiration less than now.
C6_ReadTimeFilter ==
    \A k \in Keys :
        /\ \A r \in RowsOf(k) :
              r.ttl > 0 =>
                  IF now <= r.ttl
                  THEN get(table, k, now) = Returned(written[r.key].value)
                  ELSE get(table, k, now) = Undefined
        /\ get(table, k, now) = Undefined
              <=> (RowsOf(k) = {} \/ \E r \in RowsOf(k) : r.ttl # 0 /\ r.ttl < now)

\* C7: the table holds at most one row per key; once the deferred write of a
\* put has run, the key's single row carries that put's value, expiration and
\* kind, and get of the key returns that put's value while the row is live.
C7_UpsertReplaces ==
    /\ \A r1, r2 \in table : r1.key = r2.key => r1 = r2
    /\ (last.op = "deferred" /\ last.unit.op = "put"
            /\ (last.unit.exp = 0 \/ last.unit.exp >= now)) =>
          /\ RowsOf(last.unit.key) =
                {[key |-> Affinity(last.unit.key), val |-> last.unit.v,
                  ttl |-> last.unit.exp, vtype |-> last.unit.vt]}
          /\ get(table, last.unit.key, now) = Returned(last.unit.value)

\* C8: list with prefix p and limit n returns at most n entries (at most 1000
\* when the limit is omitted), and every key it returns starts with p,
\* character for character.  (Stated for n >= 1 and for p other than "%": a
\* limit below 1 is raised to 1 by the clamp of list, and the prefix "%" alone
\* is the documented catch-all.)
C8_ListPrefixAndLimit ==
    last.op = "list" =>
        /\ last.limit = <<>> => Cardinality(DOMAIN last.result) <= 1000
        /\ (last.limit # <<>> /\ last.limit[1] >= 1) =>
              Cardinality(DOMAIN last.result) <= last.limit[1]
        /\ last.prefix # << <<"%">> >> =>
              \A k \in DOMAIN last.result : StartsWith(k.text, PrefixText(last.prefix))

\* C9: a row whose expiration has passed and that is still in the table is in
\* no result of list without ignoreTtl, and is in the result of list with
\* ignoreTtl, mapped to its expiration, whenever its key starts with the prefix
\* and the limit admits every row; list with ignoreTtl returns every row whose
\* key starts with the prefix, up to the limit.
C9_IgnoreTtlListsExpired ==
    last.op = "list" =>
        IF ~last.ignoreTtl
        THEN \A r \in table : Expired(r, now) => r.key \notin DOMAIN last.result
        ELSE LET asked == {r \in table : StartsWith(r.key.text, PrefixText(last.prefix))}
             IN  /\ Cardinality(DOMAIN last.result)
                       >= Min(ListLimit(last.limit), Cardinality(asked))
                 /\ ListLimit(last.limit) >= Cardinality(table) =>
                       \A r \in asked :
                           r.key \in DOMAIN last.result /\ last.result[r.key] = r.ttl

C9_Witness ==
    /\ last.op = "list" /\ last.ignoreTtl
    /\ \E r \in table : Expired(r, now) /\ r.key \in DOMAIN last.result
    /\ \E res \in list(table, last.prefix, last.limit, FALSE, now) :
          DOMAIN res # DOMAIN last.result

PutRow(unit) ==
    [key |-> Affinity(unit.key), val |-> unit.v, ttl |-> unit.exp, vtype |-> unit.vt]
Upserted(unit) == SqlUpsert(table, unit.key, unit.v, unit.exp, unit.vt)

\* the step is a deferred unit of the given method running
DeferredOf(op) == last'.op = "deferred" /\ last'.unit.op = op

\* C11: delete returns without touching the table; when its deferred unit has
\* run, the key has no row, live or expired, get of the key returns undefined
\* and no list, with or without ignoreTtl, holds the key; every other row
\* stays (so nothing changes when the key had no row, and nothing is swept);
\* the cleanup interval and the next sweep time are unchanged.
C11_DeleteRemoves ==
    [][/\ last'.op = "delete" => UNCHANGED <<table, interval, timing>>
       /\ DeferredOf("delete") =>
             /\ table' = table \ RowsOf(last'.unit.key)
             /\ get(table', last'.unit.key, now) = Undefined
             /\ \A c \in ListCalls, i \in BOOLEAN :
                   \A res \in list(table', c[1], c[2], i, now) :
                       Affinity(last'.unit.key) \notin DOMAIN res
             /\ ~last'.swept
             /\ UNCHANGED <<interval, timing>>
      ]_vars

C11_Witness ==
    /\ last.op = "deferred" /\ last.unit.op = "delete"
    /\ \E t \in last.removed : t > 0 /\ t < now
    /\ timing < now
    /\ \E r \in table : Expired(r, now)

\* C12: when the deferred unit of clear has run the table has no row (get
\* returns undefined for every key, every list with ignoreTtl is empty), while
\* the flag, the table and the index, the cleanup interval and the next sweep
\* time are as they were and the instance stays ready; a put whose deferred
\* write then runs on the empty table leaves exactly its row.
C12_ClearEmptiesOnly ==
    [][/\ DeferredOf("clear") =>
             /\ table' = {}
             /\ \A k \in Keys : get(table', k, now) = Undefined
             /\ \A c \in ListCalls : \A res \in list(table', c[1], c[2], TRUE, now) :
                   DOMAIN res = {}
             /\ UNCHANGED <<init, schema, boot, created, interval, timing>>
             /\ init /\ boot = "ready" /\ schema = {"dokvs", "expindex"}
       /\ (DeferredOf("put") /\ table = {}) =>
             table' = IF last'.swept /\ Expired(PutRow(last'.unit), now)
                      THEN {} ELSE {PutRow(last'.unit)}
      ]_vars

C12_Witness ==
    /\ last.op = "deferred" /\ last.unit.op = "clear"
    /\ Cardinality(last.removed) > 1
    /\ timing > now /\ interval # DefaultInterval

\* C13 as stated: whenever the deferred unit of a put, a delete or a clear runs
\* at a time later than the next sweep time, the sweep executes and the next
\* sweep time becomes now + interval.
C13_EveryWriteSweeps ==
    [][(last'.op = "deferred" /\ timing < now) =>
          last'.swept /\ timing' = now + interval
      ]_vars

\* C13 as amended: the deferred unit of a put that runs at a time later than
\* the next sweep time executes the sweep and sets the next sweep time to
\* now + interval; the deferred units of delete and clear never sweep: they
\* leave the next sweep time and every expired row of other keys as they were.
C13_OnlyPutSweeps ==
    [][/\ (DeferredOf("put") /\ timing < now) =>
             /\ last'.swept /\ timing' = now + interval
             /\ \A r \in table' : ~Expired(r, now)
       /\ DeferredOf("delete") =>
             ~last'.swept /\ timing' = timing /\ table' = table \ RowsOf(last'.unit.key)
       /\ DeferredOf("clear") => ~last'.swept /\ timing' = timing
      ]_vars

C13_Witness ==
    /\ last.op = "deferred" /\ last.unit.op = "put" /\ last.swept
    /\ last.removed # {}
    /\ last.before.sweptAt # <<>> /\ ~last.before.sweptAt.here

\* C14: get and list change nothing: no row is deleted or modified, nothing is
\* queued, no sweep runs, and the next sweep time and the cleanup interval are
\* as they were, also when a sweep is due.
C14_ReadsChangeNothing ==
    [][last'.op \in {"get", "list"} =>
          UNCHANGED <<table, interval, timing, pending, written, init, schema, sweptAt>>
      ]_vars

C14_Witness ==
    /\ last.op = "get" /\ last.result = Undefined
    /\ \E r \in RowsOf(last.key) : Expired(r, now)
    /\ timing < now

\* C15 as stated: a sweep never executes at a time before the next sweep time;
\* right after a sweep at time t the next sweep time is t + interval; and a
\* sweep that follows another with no setCleanupInterval reset in between comes
\* at least the interval (in force at the earlier sweep) after it.
C15_SweepsThrottled ==
    [][(last'.op = "deferred" /\ last'.swept) =>
          /\ ~(now < timing)
          /\ timing' = now + interval
          /\ sweptAt # <<>> => now - sweptAt.at >= sweptAt.interval
      ]_vars

\* C15 as amended: a sweep executes only at a time later than the next sweep
\* time; right after a sweep at time t the next sweep time is t + interval; and
\* a sweep that follows another by the same instance, with no
\* setCleanupInterval reset in between, comes at least the interval after it.
C15_SweepsThrottledPerInstance ==
    [][(last'.op = "deferred" /\ last'.swept) =>
          /\ timing < now
          /\ timing' = now + interval
          /\ (sweptAt # <<>> /\ sweptAt.here) => now - sweptAt.at >= sweptAt.interval
      ]_vars

C15_Witness ==
    /\ last.op = "deferred" /\ last.swept
    /\ last.before.sweptAt # <<>> /\ last.before.sweptAt.here
    /\ timing = now + interval

\* C16 as stated: the deferred unit of a put that runs at a time now with
\* now >= next sweep time executes the sweep, after which no row with
\* 0 < ttl < now is in the table.
C16_SweepAtThreshold ==
    [][(DeferredOf("put") /\ now >= timing) =>
          last'.swept /\ \A r \in table' : ~Expired(r, now)
      ]_vars

\* C16 as amended: the deferred unit of a put executes the sweep exactly when
\* now > next sweep time (not when now equals it), and after the sweep no row
\* with 0 < ttl < now is in the table.
C16_SweepAfterThreshold ==
    [][DeferredOf("put") =>
          /\ last'.swept <=> now > timing
          /\ last'.swept => \A r \in table' : ~Expired(r, now)
      ]_vars

C16_Witness ==
    /\ last.op = "deferred" /\ last.unit.op = "put" /\ ~last.swept
    /\ last.before.timing = now
    /\ \E r \in table : Expired(r, now)

\* C17: a sweep at time now leaves exactly the rows of the table (as the put's
\* upsert left it) that are not expired: no row with 0 < ttl < now remains, and
\* every row with ttl = 0 or ttl >= now, the row just written included, stays
\* as it is.
C17_SweepDeletesExpiredOnly ==
    [][(last'.op = "deferred" /\ last'.swept) =>
          /\ \A r \in table' : ~Expired(r, now)
          /\ \A r \in Upserted(last'.unit) : Live(r, now) => r \in table'
          /\ table' \subseteq Upserted(last'.unit)
      ]_vars

C17_Witness ==
    /\ last.op = "deferred" /\ last.swept
    /\ last.removed # {}
    /\ last.unit.exp = now /\ PutRow(last.unit) \in table

\* C18: setCleanupInterval(i, true) with i > 0 sets the next sweep time to
\* now + i; the next sweep time then stays until the instance resets it again
\* or sweeps; and the deferred unit of a put that runs at a time later than the
\* next sweep time removes every row whose expiration has passed, so that no
\* list with ignoreTtl holds such a row.
C18_ResetThenPutSweeps ==
    [][/\ (last'.op = "setCleanupInterval" /\ last'.interval > 0 /\ last'.reset) =>
             timing' = now + last'.interval /\ interval' = last'.interval
       /\ timing' # timing =>
             \/ last'.op = "setCleanupInterval" /\ last'.interval > 0 /\ last'.reset
             \/ last'.op = "deferred" /\ last'.swept
             \/ last'.op = "constructor"
       /\ (DeferredOf("put") /\ now > timing) =>
             /\ last'.swept
             /\ \A c \in ListCalls : \A res \in list(table', c[1], c[2], TRUE, now) :
                   \A r \in Upserted(last'.unit) :
                       Expired(r, now) => r.key \notin DOMAIN res
      ]_vars

C18_Witness ==
    /\ last.op = "deferred" /\ last.unit.op = "put" /\ last.swept
    /\ last.removed # {}
    /\ last.before.sweptAt = <<>> /\ last.before.timing > 0
    /\ interval = 1 /\ now > last.before.timing

\* C19: setCleanupInterval(i, reset) with i <= 0 changes nothing, whatever
\* reset is; the interval starts at 86400 and changes only when
\* setCleanupInterval is called with i > 0 (to i) or a new instance is
\* constructed (to 86400).
C19_NonPositiveIntervalIgnored ==
    /\ interval = DefaultInterval
    /\ [][/\ (last'.op = "setCleanupInterval" /\ last'.interval <= 0) =>
                UNCHANGED <<interval, timing, table, pending, written, sweptAt>>
          /\ interval' # interval =>
                \/ /\ last'.op = "setCleanupInterval"
                   /\ last'.interval > 0 /\ interval' = last'.interval
                \/ last'.op = "constructor" /\ interval' = DefaultInterval
         ]_vars

C19_Witness ==
    /\ last.op = "setCleanupInterval" /\ last.interval <= 0 /\ last.reset
    /\ interval = DefaultInterval /\ timing > now
    /\ table # {}

\* C20: over every construction on the same storage, #TABLE and #INDEX are
\* executed at most once each; the flag, once set, stays set and the table and
\* the index, once created, stay (clear included); and a construction that
\* finds the flag set executes neither statement.
C20_BootstrapOnce ==
    [][/\ created'.table <= 1 /\ created'.index <= 1
       /\ init => init'
       /\ schema \subseteq schema'
       /\ created' # created => boot \in {"execTable", "execIndex"} /\ ~(boot = "isTable")
       /\ (last'.op = "constructor" /\ init) => boot' = "isTable"
       /\ (boot = "isTable" /\ init /\ boot' # boot) => boot' = "ready"
      ]_vars

C20_Witness ==
    /\ last = [op |-> "isTable", result |-> TRUE]
    /\ boot = "ready"
    /\ table # {}
    /\ created = [table |-> 1, index |-> 1]


\* the methods of the store, as last records them
Operations == {"get", "put", "delete", "clear", "list", "setCleanupInterval", "deferred"}

\* C21: in every state, the states between the steps of the bootstrap
\* included, the flag being set implies that the table and the index exist.
C21_FlagImpliesSchema ==
    init => {"dokvs", "expindex"} \subseteq schema

\* C22: no method of the store and no deferred unit executes while the
\* bootstrap is running: every such step is taken with the bootstrap finished,
\* the flag set and the table and the index in place, and no step of the
\* bootstrap is taken while a deferred unit waits.
C22_NoOperationDuringBootstrap ==
    [][/\ last'.op \in Operations =>
             /\ boot = "ready" /\ boot' = "ready"
             /\ init /\ schema = {"dokvs", "expindex"}
       /\ last'.op \in {"isTable", "createTable"} => pending = <<>> /\ pending' = <<>>
      ]_vars

C22_Witness ==
    /\ last.op = "get" /\ last.result = Undefined
    /\ boot = "ready" /\ created = [table |-> 1, index |-> 1]
    /\ table = {} /\ timing = InitialTiming

\* C23: a get is executed only when no deferred unit waits, and it returns
\* the value of the latest put to its key whenever the key's row is live.
C23_ReadAfterWrite ==
    [][last'.op = "get" =>
          /\ pending = <<>>
          /\ \A r \in RowsOf(last'.key) :
                Live(r, now) => last'.result = Returned(written[r.key].value)
      ]_vars

\* C26: list with the prefix "%" has the results of list with the prefix
\* omitted and of list with the empty prefix, and returns every live row (every
\* row with ignoreTtl) up to the limit, whatever character its key begins with.
C26_PercentIsCatchAll ==
    (last.op = "list" /\ last.prefix = << <<"%">> >>) =>
        /\ list(table, last.prefix, last.limit, last.ignoreTtl, now)
              = list(table, <<>>, last.limit, last.ignoreTtl, now)
        /\ list(table, last.prefix, last.limit, last.ignoreTtl, now)
              = list(table, << <<>> >>, last.limit, last.ignoreTtl, now)
        /\ Cardinality(DOMAIN last.result)
              = Min(ListLimit(last.limit),
                    Cardinality({r \in table : last.ignoreTtl \/ Live(r, now)}))

C26_Witness ==
    /\ last.op = "list" /\ last.prefix = << <<"%">> >> /\ ~last.ignoreTtl
    /\ Cardinality(DOMAIN last.result) = 1
    /\ \A k \in DOMAIN last.result : ~StartsWith(k.text, <<"%">>)
    /\ \E r \in table : Expired(r, now)

C30_IntervalWithoutReset ==
    [][/\ (last'.op = "setCleanupInterval" /\ last'.interval > 0 /\ ~last'.reset) =>
             /\ interval' = last'.interval
             /\ UNCHANGED <<timing, table, pending, written, sweptAt>>
       /\ (last'.op = "deferred" /\ last'.swept) =>
             /\ last'.before.timing = timing /\ timing < now
             /\ interval' = interval /\ timing' = now + interval'
      ]_vars

C30_Witness ==
    /\ last.op = "deferred" /\ last.swept
    /\ last.before.timing = InitialTiming
    /\ interval = 1 /\ timing = now + 1
    /\ now > 1

\* the kind of binding each getter wraps, and what it returns for it
KindOf(getter) ==
    CASE getter = "getKVSEventual" -> "KVNamespace"
      [] getter = "getKVSRealtime" -> "DurableObjectNamespace"
      [] getter = "getRDBEventual" -> "D1Database"
      [] getter = "getRDBConnectionString" -> "Hyperdrive"
      [] getter = "getBOS" -> "R2Bucket"
Documented(getter) ==
    CASE getter = "getKVSEventual" -> Store("KVEventualStore", "eventual")
      [] getter = "getKVSRealtime" -> Store("KVRealtimeStore", "strong")
      [] getter = "getRDBEventual" -> Store("RDBEventualStore", "eventual")
      [] getter = "getRDBConnectionString" -> ConnectionString
      [] getter = "getBOS" -> Store("BOStore", "strong")

\* C28: called as getter(env, bindingName), a getter returns its store (or the
\* connection string) when env[bindingName] is a binding of its kind, and
\* throws an Error exactly when the binding is missing or of another kind.
C28_BindingResolution ==
    (adapter # <<>> /\ "result" \in DOMAIN adapter
        /\ adapter.call = "getter(env, name)") =>
        IF adapter.env.props[adapter.name] = KindOf(adapter.getter)
        THEN adapter.result = Documented(adapter.getter)
        ELSE adapter.result = ThrownError

\* the put options hold the field, and with which number
Has(options, field) == options # <<>> /\ options[1][field] # <<>>
ExpirationOf(options) == options[1].expiration[1]
TtlOf(options) == options[1].ttl[1]

\* the put the adapter sent is listed by the list call just made
AdapterPutListed ==
    /\ adapter # <<>> /\ adapter.state = "applied"
    /\ last.op = "list" /\ Affinity(AdapterKey) \in DOMAIN last.result

\* C29 as stated: the adapter hands the store e for {expiration: e} with e
\* nonzero, whatever ttl is, now + t for {ttl: t} alone, and 0 for no options
\* or neither field; a put with a positive ttl, once listed, is listed with an
\* expiration greater than the time of the put.
C29_PutOptionsToExpiration ==
    adapter # <<>> =>
        /\ (Has(adapter.options, "expiration") /\ ExpirationOf(adapter.options) # 0) =>
              adapter.exp = ExpirationOf(adapter.options)
        /\ (~Has(adapter.options, "expiration") /\ Has(adapter.options, "ttl")) =>
              adapter.exp = adapter.at + TtlOf(adapter.options)
        /\ (~Has(adapter.options, "expiration") /\ ~Has(adapter.options, "ttl")) =>
              adapter.exp = 0
        /\ (AdapterPutListed /\ ~Has(adapter.options, "expiration")
                /\ Has(adapter.options, "ttl") /\ TtlOf(adapter.options) > 0) =>
              last.result[Affinity(AdapterKey)] > adapter.at

\* C29 as amended: as above, {ttl: t} alone giving now + t when t is nonzero
\* and 0 (no expiration) when t is 0.
C29_PutOptionsToExpirationNonzeroTtl ==
    adapter # <<>> =>
        /\ (Has(adapter.options, "expiration") /\ ExpirationOf(adapter.options) # 0) =>
              adapter.exp = ExpirationOf(adapter.options)
        /\ (~Has(adapter.options, "expiration") /\ Has(adapter.options, "ttl")) =>
              adapter.exp = IF TtlOf(adapter.options) = 0 THEN 0
                            ELSE adapter.at + TtlOf(adapter.options)
        /\ (~Has(adapter.options, "expiration") /\ ~Has(adapter.options, "ttl")) =>
              adapter.exp = 0
        /\ (AdapterPutListed /\ ~Has(adapter.options, "expiration")
                /\ Has(adapter.options, "ttl") /\ TtlOf(adapter.options) > 0) =>
              last.result[Affinity(AdapterKey)] > adapter.at

C29_Witness ==
    /\ AdapterPutListed
    /\ adapter.options = <<[expiration |-> <<>>, ttl |-> <<1>>]>>
    /\ last.result[Affinity(AdapterKey)] = adapter.at + 1
    /\ now > adapter.at

\* C24: a write that is accepted returns with its unit queued and the table
\* untouched; a unit leaves the queue only by running, and has then been
\* applied (a put's row is in the table unless the sweep of the same unit
\* removed it as expired, a delete's key has no row, a clear leaves no row);
\* the instance is torn down only with the queue empty; and every queued unit
\* eventually runs.
C24_AcceptedWritesRun ==
    /\ [][/\ Len(pending') > Len(pending) =>
                /\ last'.op \in {"put", "delete", "clear"}
                /\ table' = table
                /\ Len(pending') = Len(pending) + 1
                /\ pending'[Len(pending')].op = last'.op
          /\ Len(pending') < Len(pending) =>
                /\ last'.op = "deferred" /\ last'.unit = Head(pending)
                /\ pending' = Tail(pending)
                /\ last'.unit.op = "put" =>
                      \/ PutRow(last'.unit) \in table'
                      \/ last'.swept /\ Expired(PutRow(last'.unit), now)
                /\ last'.unit.op = "delete" =>
                      \A r \in table' : r.key # Affinity(last'.unit.key)
                /\ last'.unit.op = "clear" => table' = {}
          /\ (boot = "ready" /\ boot' # "ready") => pending = <<>>
         ]_vars
    /\ (pending # <<>>) ~> (pending = <<>>)

C24_Witness ==
    /\ last.op = "deferred" /\ last.unit.op = "put" /\ ~last.swept
    /\ PutRow(last.unit) \in table /\ last.unit.exp > 0
    /\ pending = <<>> /\ boot = "ready"
    /\ now > 1

\* C25: an error of the storage engine raised by the statement of an
\* operation is raised to the caller of that operation, put, delete and clear
\* included, and the statement is not executed again: a failed deferred unit
\* leaves the queue and nothing is queued in its place.
C25_ErrorsReachCaller ==
    [][("error" \in DOMAIN last' /\ last' # last) =>
          /\ last'.raisedTo = "caller"
          /\ last'.op = "deferred" => pending' = Tail(pending)
          /\ last'.op # "deferred" => pending' = pending
      ]_vars

\* C31: the deferred unit of put(k1) or delete(k1) leaves the row of every
\* other key string k2 and the result of get(k2) as they were, also for keys
\* that differ in numeric spelling or in letter case only; and every key list
\* returns is a string that was put, character for character.
C31_KeyIsolation ==
    [][/\ (DeferredOf("put") \/ DeferredOf("delete")) =>
             \A k2 \in IsoKeys \ {last'.unit.key} :
                 /\ {r \in table' : r.key = Affinity(k2)} = RowsOf(k2)
                 /\ get(table', k2, now) = get(table, k2, now)
       /\ last'.op = "list" =>
             \A k \in DOMAIN last'.result :
                 k.type = "text" /\ k \in DOMAIN written /\ written[k].key = k.text
      ]_vars

\* the rows of a table that the read filter shows at time n
Visible(t, n) == {r \in t : Live(r, n)}

\* C32 as stated: once every deferred unit has run, the table is the table
\* obtained by applying the accepted puts, deletes and clears at once, in the
\* order of their calls.
C32_DeferredInCallOrder ==
    pending = <<>> => table = Ref.ref

\* C32 as amended: once every deferred unit has run, the table shows the same
\* live rows as the table obtained by applying the accepted writes at once in
\* call order, and is that table, row for row, when every unit ran within the
\* second of its call; put(k) then delete(k) leaves k absent, and delete(k)
\* then put(k) leaves k's row.
C32_DeferredInCallOrderLive ==
    pending = <<>> =>
        /\ Visible(table, now) = Visible(Ref.ref, now)
        /\ Ref.exact => table = Ref.ref /\ timing = Ref.timing
        /\ (Len(Ref.calls) = 2 /\ last.op = "deferred"
                /\ Ref.calls[1].op # "clear" /\ Ref.calls[2].op # "clear"
                /\ Ref.calls[1].key = Ref.calls[2].key) =>
              /\ last.unit = Ref.calls[2]
              /\ (Ref.calls[2].op = "delete") => RowsOf(last.unit.key) = {}
              /\ (Ref.calls[2].op = "put" /\ Ref.exact) =>
                    RowsOf(last.unit.key) = {PutRow(last.unit)}

C32_Witness ==
    /\ pending = <<>> /\ last.op = "deferred" /\ last.unit.op = "delete"
    /\ adapter # <<>> /\ adapter.exact /\ Len(adapter.calls) = 2
    /\ adapter.calls[1].op = "put" /\ adapter.calls[1].key = last.unit.key
    /\ RowsOf(last.unit.key) = {} /\ table # {}

\* C33: at every time, get of every key, and every list without ignoreTtl whose
\* limit admits all the live rows its pattern matches, return on the store
\* what they return on the store that never sweeps; the two tables differ
\* only in rows whose expiration has passed.
C33_SweepsInvisible ==
    /\ \A k \in Keys : get(table, k, now) = get(Sweepless, k, now)
    /\ \A c \in ListCalls :
          Cardinality({r \in Visible(Sweepless, now) :
                          Like(ListPattern(c[1]), r.key.text)}) <= ListLimit(c[2]) =>
              list(table, c[1], c[2], FALSE, now) = list(Sweepless, c[1], c[2], FALSE, now)
    /\ table \subseteq Sweepless
    /\ \A r \in Sweepless \ table : Expired(r, now)

C33_Witness ==
    /\ last.op = "list" /\ last.limit = <<>> /\ DOMAIN last.result # {}
    /\ adapter # <<>> /\ table # adapter.nosweep
    /\ last.result \in list(adapter.nosweep, last.prefix, last.limit, FALSE, now)
    /\ sweptAt # <<>> /\ ~sweptAt.here

\* C34 as stated: every construction starts with the next sweep time 0 and the
\* interval 86400, and the first deferred put that runs on an instance
\* executes a sweep, whatever the instance before it swept or was configured
\* with.
C34_FirstPutSweeps ==
    [][/\ last'.op = "constructor" =>
             timing' = InitialTiming /\ interval' = DefaultInterval
       /\ (DeferredOf("put") /\ ~Fresh.put) => last'.swept
      ]_vars

\* C34 as amended: every construction starts with the next sweep time 0 and
\* the interval 86400, and the first deferred put that runs on an instance
\* executes a sweep unless setCleanupInterval(i, true) with i > 0 was called on
\* that instance before it, in which case it sweeps exactly when the time is
\* later than the next sweep time set by that call.
C34_FirstPutSweepsUnlessReset ==
    [][/\ last'.op = "constructor" =>
             timing' = InitialTiming /\ interval' = DefaultInterval
       /\ (DeferredOf("put") /\ ~Fresh.put /\ ~Fresh.reset) =>
             last'.swept /\ timing = InitialTiming
       /\ (DeferredOf("put") /\ ~Fresh.put /\ Fresh.reset) =>
             (last'.swept <=> now > timing)
      ]_vars

C34_Witness ==
    /\ last.op = "deferred" /\ last.unit.op = "put" /\ last.swept
    /\ adapter # <<>> /\ adapter.put /\ ~adapter.reset
    /\ last.before.timing = InitialTiming
    /\ last.before.sweptAt # <<>> /\ ~last.before.sweptAt.here
    /\ last.before.sweptAt.at = now /\ last.before.sweptAt.interval = 1

\* C35: every row of the table has an expiration that is not negative, a kind
\* that is STRING or BINARY, and, when BINARY, a raw value of an even number of
\* lowercase hexadecimal digits; a put is queued only with an expiration that
\* is 0 or not less than the time of the call, and a row enters the table only
\* as the row of the deferred put that runs; hence list with ignoreTtl and
\* no prefix returns every row of the table, up to its limit.
C35_StoredRows ==
    [][/\ \A r \in table' :
             /\ r.ttl >= 0
             /\ r.vtype \in {VTypeString, VTypeBuffer}
             /\ r.vtype = VTypeBuffer =>
                   /\ Len(r.val) % 2 = 0
                   /\ \A i \in 1..Len(r.val) : IsHexDigit(r.val[i])
             /\ NotExpired(r, 0)
       /\ Len(pending') > Len(pending) =>
             LET unit == pending'[Len(pending')] IN
             unit.op = "put" => (unit.exp = 0 \/ unit.exp >= now)
       /\ \A r \in table' \ table :
             /\ DeferredOf("put") /\ last'.unit = Head(pending)
             /\ r = PutRow(last'.unit)
       /\ (last'.op = "list" /\ last'.ignoreTtl /\ last'.prefix = <<>>
               /\ last'.limit = <<>>) =>
             DOMAIN last'.result = {r.key : r \in table'}
      ]_vars

C35_Witness ==
    /\ last.op = "list" /\ last.ignoreTtl /\ last.prefix = <<>> /\ last.limit = <<>>
    /\ DOMAIN last.result = {r.key : r \in table}
    /\ \E r \in table : r.vtype = VTypeBuffer /\ Expired(r, now) /\ r.val # <<>>
    /\ \E r \in table : r.vtype = VTypeString /\ r.ttl = 0

=============================================================================
